---- MODULE Spec2Model ----
(***************************************************************************)
(* Dialogue controller of morning-bot.py: the on_message handler, the      *)
(* process-wide user_data record, the two search adapters and the          *)
(* completion adapter.                                                     *)
(*                                                                         *)
(* Text whose characters the handler inspects (the incoming message, the   *)
(* derived search query, the items of the preference lists) is a sequence  *)
(* of one-character strings.  Text the handler only passes along (model    *)
(* replies, rendered result listings, apologies) is a tagged record.       *)
(***************************************************************************)
EXTENDS Naturals, Sequences, FiniteSets, TLC

(***************************************************************************)
(* Bounds of the model.                                                    *)
(***************************************************************************)
\* Number of incoming messages handled in one behaviour.
MaxTurns == 4
\* Number of completion provider errors and of search results that cannot be
\* rendered in one behaviour.
MaxFaults == 1
\* Number of messages with a video or search keyword in one behaviour.
MaxSearches == 1
\* Number of messages received when invocations interleave.
MaxInterleaved == 3

(***************************************************************************)
(* Program constants.                                                      *)
(***************************************************************************)
\* search_web / search_youtube: max_results default
MaxResults == 3
\* on_message: result['snippet'][:200]
SnippetLen == 200
\* on_message: user_data['conversation_history'][-5:]
HistoryWindow == 5

(***************************************************************************)
(* Strings: str.lower, the `in` operator, str.replace(k, ""), str.strip,   *)
(* str.split(","), ", ".join.                                              *)
(***************************************************************************)
ToLower ==
    [c \in {"A","B","C","D","E","F","G","H","I","J","K","L","M","N","O","P",
            "Q","R","S","T","U","V","W","X","Y","Z"} |->
        CASE c = "A" -> "a" [] c = "B" -> "b" [] c = "C" -> "c" [] c = "D" -> "d"
          [] c = "E" -> "e" [] c = "F" -> "f" [] c = "G" -> "g" [] c = "H" -> "h"
          [] c = "I" -> "i" [] c = "J" -> "j" [] c = "K" -> "k" [] c = "L" -> "l"
          [] c = "M" -> "m" [] c = "N" -> "n" [] c = "O" -> "o" [] c = "P" -> "p"
          [] c = "Q" -> "q" [] c = "R" -> "r" [] c = "S" -> "s" [] c = "T" -> "t"
          [] c = "U" -> "u" [] c = "V" -> "v" [] c = "W" -> "w" [] c = "X" -> "x"
          [] c = "Y" -> "y" [] c = "Z" -> "z"]

\* message.content.lower()
Lower(s) == [i \in 1..Len(s) |-> IF s[i] \in DOMAIN ToLower THEN ToLower[s[i]] ELSE s[i]]

\* keyword in content
Contains(s, k) ==
    \E i \in 1..(Len(s) + 1) :
        /\ i + Len(k) - 1 <= Len(s)
        /\ SubSeq(s, i, i + Len(k) - 1) = k

\* s.replace(k, ""): every non-overlapping occurrence, scanning from the left
RECURSIVE Remove(_, _)
Remove(s, k) ==
    IF Len(s) < Len(k) \/ Len(k) = 0 THEN s
    ELSE IF SubSeq(s, 1, Len(k)) = k
         THEN Remove(SubSeq(s, Len(k) + 1, Len(s)), k)
         ELSE <<Head(s)>> \o Remove(Tail(s), k)

IsSpace(c) == c \in {" ", "\t", "\n"}

\* s.strip()
RECURSIVE Strip(_)
Strip(s) ==
    IF s = <<>> THEN s
    ELSE IF IsSpace(Head(s)) THEN Strip(Tail(s))
    ELSE IF IsSpace(s[Len(s)]) THEN Strip(SubSeq(s, 1, Len(s) - 1))
    ELSE s

\* s.split(","): never empty; "" gives [""]
RECURSIVE Split(_)
Split(s) ==
    IF \E i \in 1..Len(s) : s[i] = ","
    THEN LET i == CHOOSE j \in 1..Len(s) : s[j] = "," /\ \A l \in 1..(j - 1) : s[l] # ","
         IN  <<SubSeq(s, 1, i - 1)>> \o Split(SubSeq(s, i + 1, Len(s)))
    ELSE <<s>>

\* The segments of content.split(",") without those that are blank
SplitItemsNonBlank(content) ==
    LET parts == Split(content) IN
    SelectSeq([i \in 1..Len(parts) |-> Strip(parts[i])], LAMBDA h : h # <<>>)

\* The segments of content.split(",") without the strip of each
SplitItemsUnstripped(content) == Split(content)

\* [item.strip() for item in content.split(",")]
SplitItems(content) == LET parts == Split(content) IN [i \in 1..Len(parts) |-> Strip(parts[i])]

\* ', '.join(items)
RECURSIVE Join(_)
Join(items) ==
    IF items = <<>> THEN <<>>
    ELSE IF Len(items) = 1 THEN items[1]
    ELSE items[1] \o <<",", " ">> \o Join(Tail(items))

\* for keyword in keywords: search_query = search_query.replace(keyword, "").strip()
RECURSIVE StripKeywords(_, _)
StripKeywords(q, keywords) ==
    IF keywords = <<>> THEN q
    ELSE StripKeywords(Strip(Remove(q, Head(keywords))), Tail(keywords))

\* s[:n]
Take(s, n) == SubSeq(s, 1, IF Len(s) < n THEN Len(s) ELSE n)

\* lst[-n:]
LastN(lst, n) == SubSeq(lst, IF Len(lst) > n THEN Len(lst) - n + 1 ELSE 1, Len(lst))

(***************************************************************************)
(* Keyword tables of on_message.                                           *)
(***************************************************************************)
KwYoutube == <<"y","o","u","t","u","b","e">>
KwVideo == <<"v","i","d","e","o">>
KwWatch == <<"w","a","t","c","h">>
KwFind == <<"f","i","n","d">>
KwSearch == <<"s","e","a","r","c","h">>
KwLookFor == <<"l","o","o","k"," ","f","o","r">>

VideoKeywords == <<KwYoutube, KwVideo, KwWatch>>
VideoStripKeywords == <<KwYoutube, KwVideo, KwWatch, KwFind, KwSearch>>
SearchKeywords == <<KwSearch, KwFind, KwLookFor>>

KickoffPhrase ==
    <<"h","e","l","p"," ","m","e"," ","c","r","e","a","t","e"," ","a"," ",
      "p","e","r","s","o","n","a","l","i","z","e","d"," ",
      "m","o","r","n","i","n","g"," ","r","o","u","t","i","n","e">>

DefaultVideoQuery ==
    <<"m","o","r","n","i","n","g"," ","r","o","u","t","i","n","e"," ",
      "m","o","t","i","v","a","t","i","o","n">>
DefaultWebQuery ==
    <<"m","o","r","n","i","n","g"," ","r","o","u","t","i","n","e"," ","t","i","p","s">>

\* any(keyword in content for keyword in keywords)
AnyKeyword(content, keywords) == \E i \in 1..Len(keywords) : Contains(content, keywords[i])


(***************************************************************************)
(* Incoming messages (message.content as typed by the user).               *)
(***************************************************************************)
MsgList == <<"a", ",", " ", "b", ",", " ", "c">>
MsgWord == <<"R","u","n">>
MsgFind ==
    <<"f","i","n","d"," ","m","e"," ","a","r","t","i","c","l","e","s"," ",
      "o","n"," ","s","l","e","e","p">>
MsgKickoff ==
    <<"H","e","l","p"," ","m","e"," ","c","r","e","a","t","e"," ","a"," ",
      "p","e","r","s","o","n","a","l","i","z","e","d"," ",
      "m","o","r","n","i","n","g"," ","r","o","u","t","i","n","e">>
\* A message with a video keyword, a search keyword and the kickoff phrase
MsgLookForVideo ==
    MsgKickoff \o <<":"," ","l","o","o","k"," ","f","o","r"," ","a"," ","V","i","d","e","o">>

Messages == {MsgList, MsgWord, MsgFind, MsgLookForVideo, MsgKickoff}

\* Messages for the intake on its own: the empty message, a message of blanks
\* around one comma, a word, and the kickoff phrase.
MsgEmpty == <<>>
MsgBlanks == <<" ", ",", " ">>
IntakeMessages == {MsgEmpty, MsgBlanks, MsgWord, MsgKickoff}

(***************************************************************************)
(* Values of the text the handler passes along.                            *)
(***************************************************************************)
UserText(chars) == [kind |-> "user", chars |-> chars]
NoText == [kind |-> "none"]
\* f"I apologize, but I encountered an error: {str(e)}"
Apology(e) == [kind |-> "apology", error |-> e]

(***************************************************************************)
(* Search provider (ddgs) and the two search adapters.                     *)
(***************************************************************************)
\* What ddgs.videos can do: raise, or return a list of raw records.
VideoOutcomes ==
    { [ok |-> FALSE],
      [ok |-> TRUE, hits |-> <<>>],
      [ok |-> TRUE,
       hits |-> << [dict |-> TRUE,
                    fields |-> [title |-> "t1", link |-> "l1", duration |-> "d1", channel |-> "c1"]],
                   [dict |-> FALSE],
                   [dict |-> TRUE, fields |-> [link |-> "l2"]] >>] }

\* What ddgs.text can do: raise, or return a list of raw records.
StrBody == [kind |-> "str", chars |-> <<"z","z","z">>]
NoneBody == [kind |-> "none"]
WebOutcomes ==
    { [ok |-> FALSE],
      [ok |-> TRUE, hits |-> <<>>],
      [ok |-> TRUE, hits |-> << [title |-> "t1", link |-> "l1", body |-> StrBody] >>],
      [ok |-> TRUE, hits |-> << [title |-> "t1", link |-> "l1", body |-> StrBody],
                               [title |-> "t2", body |-> StrBody] >>],
      [ok |-> TRUE, hits |-> << [title |-> "t1", link |-> "l1", body |-> NoneBody] >>] }

\* r.get(key, default)
Get(r, key, default) == IF key \in DOMAIN r THEN r[key] ELSE default

\* search_web: a provider error or a record without title, link or body
\* ends in the except clause, which returns [].
search_web(outcome) ==
    IF ~outcome.ok THEN <<>>
    ELSE LET hits == Take(outcome.hits, MaxResults) IN
         IF \E i \in 1..Len(hits) : ~({"title", "link", "body"} \subseteq DOMAIN hits[i])
         THEN <<>>
         ELSE [i \in 1..Len(hits) |->
                 [title |-> hits[i].title, link |-> hits[i].link, snippet |-> hits[i].body]]

\* search_youtube: a provider error returns []; a record whose r.get raises is skipped.
search_youtube(outcome) ==
    IF ~outcome.ok THEN <<>>
    ELSE LET hits == Take(outcome.hits, MaxResults)
             good == SelectSeq(hits, LAMBDA r : r.dict)
         IN  [i \in 1..Len(good) |->
                 [title |-> Get(good[i].fields, "title", "No title"),
                  link |-> Get(good[i].fields, "link", "No link"),
                  duration |-> Get(good[i].fields, "duration", "N/A"),
                  channel |-> Get(good[i].fields, "channel", "N/A")]]

\* result['snippet'][:200] raises when the snippet is not a string
Renderable(results) == \A i \in 1..Len(results) : results[i].snippet.kind = "str"

RenderWeb(results) ==
    [kind |-> "resources",
     items |-> [i \in 1..Len(results) |->
                  [title |-> results[i].title, link |-> results[i].link,
                   snippet |-> Take(results[i].snippet.chars, SnippetLen)]]]

RenderVideos(header, results) == [kind |-> "videos", header |-> header, items |-> results]

(***************************************************************************)
(* Completion adapter.                                                     *)
(***************************************************************************)
\* A fixed instruction written in on_message
Fixed(text) == [kind |-> "fixed", text |-> text]
Request(prompt, context) == [prompt |-> prompt, context |-> context]
NoRequest == [prompt |-> NoText, context |-> [kind |-> "none"]]

\* get_gemini_response: the generated text, or the apology string when the
\* provider call (or reading response.text) raises.
get_gemini_response(request, ok) ==
    IF ok THEN [kind |-> "generated", request |-> request]
    ELSE Apology("gemini")

(***************************************************************************)
(* generate_morning_routine (lines 306-333).  The text it returns is       *)
(* modelled line by line: a fixed line, or the bullet of an item.          *)
(***************************************************************************)
TextLine(text) == [kind |-> "line", text |-> text]
Bullet(item) == [kind |-> "bullet", item |-> Strip(item)]
Bullets(list) == [i \in 1..Len(list) |-> Bullet(list[i])]

RoutineTitle == TextLine("Your Personalized Morning Routine:")
ActivitiesHeading == TextLine("1. Start with energizing activities:")
HabitsHeading == TextLine("2. Maintain your current habits:")
GoalsHeading == TextLine("3. Goal-focused activities:")
TipsBlock ==
    << TextLine(""), TextLine("Tips:"),
       TextLine("- Wake up at the same time every day"),
       TextLine("- Start with a glass of water"),
       TextLine("- Take small steps to build consistency") >>

\* generate_morning_routine with the habits section first
generate_morning_routine_HabitsFirst(ud) ==
    << RoutineTitle, TextLine("") >>
    \o (IF ud.current_habits # <<>>
        THEN << HabitsHeading >> \o Bullets(ud.current_habits)
        ELSE << >>)
    \o (IF ud.energizing_activities # <<>>
        THEN << TextLine(""), ActivitiesHeading >> \o Bullets(ud.energizing_activities)
        ELSE << >>)
    \o (IF ud.goals # <<>>
        THEN << TextLine(""), GoalsHeading >> \o Bullets(ud.goals)
        ELSE << >>)
    \o TipsBlock

generate_morning_routine(ud) ==
    << RoutineTitle, TextLine("") >>
    \o (IF ud.energizing_activities # <<>>
        THEN << ActivitiesHeading >> \o Bullets(ud.energizing_activities)
        ELSE << >>)
    \o (IF ud.current_habits # <<>>
        THEN << TextLine(""), HabitsHeading >> \o Bullets(ud.current_habits)
        ELSE << >>)
    \o (IF ud.goals # <<>>
        THEN << TextLine(""), GoalsHeading >> \o Bullets(ud.goals)
        ELSE << >>)
    \o TipsBlock

(***************************************************************************)
(* State.                                                                  *)
(***************************************************************************)
\* Invocations of on_message that can be in progress (coroutines of the event loop).
Tasks == {1, 2}

VARIABLES
    user_data,   \* the process-wide record: three preference lists and the history
    now,         \* logical clock read by datetime.now()
    turn,        \* per invocation: position in on_message and its local variables
    turns,       \* messages received so far
    faults,      \* completion errors and unrenderable results so far
    searches,    \* messages with a video or search keyword so far
    assigns,     \* per preference list: how often on_message has assigned it
    routine      \* the calls of generate_morning_routine: argument and result

vars == <<user_data, now, turn, turns, faults, searches, assigns, routine>>

\* Locals of an invocation that is not running.  pre, trace and outcome record
\* the invocation for the properties: user_data as it was on entry, the
\* externally visible steps in order, and how the invocation ended.
Lists == {"current_habits", "energizing_activities", "goals"}

IdleTurn ==
    [pc |-> "idle", raw |-> <<>>, content |-> <<>>, branch |-> "none",
     search_query |-> <<>>, request |-> NoRequest, response |-> NoText,
     stage |-> 0, error |-> "", pre |-> [kind |-> "none"], trace |-> <<>>,
     outcome |-> "none"]

\* generate_morning_routine has not been called.
NotGenerated == [calls |-> "none"]

Init ==
    /\ user_data = [current_habits |-> <<>>, energizing_activities |-> <<>>,
                    goals |-> <<>>, conversation_history |-> <<>>]
    /\ now = 0
    /\ turn = [t \in Tasks |-> IdleTurn]
    /\ turns = 0
    /\ faults = 0
    /\ searches = 0
    /\ assigns = [l \in Lists |-> 0]
    /\ routine = NotGenerated

(***************************************************************************)
(* add_to_conversation_history                                             *)
(***************************************************************************)
Message(role, content, timestamp) == [role |-> role, content |-> content, timestamp |-> timestamp]

\* add_to_conversation_history keeping only the newest entries
add_to_conversation_history_Truncating(ud, message, role, timestamp) ==
    [ud EXCEPT !.conversation_history =
        LastN(Append(@, Message(role, message, timestamp)), HistoryWindow)]

add_to_conversation_history(ud, message, role, timestamp) ==
    [ud EXCEPT !.conversation_history = Append(@, Message(role, message, timestamp))]

(***************************************************************************)
(* on_message: dispatch.  The first test that matches wins.                *)
(***************************************************************************)
\* KeywordClass with the web search test ahead of the video test
KeywordClassSearchFirst(content) ==
    IF AnyKeyword(content, SearchKeywords) THEN "search"
    ELSE IF AnyKeyword(content, VideoKeywords) THEN "video"
    ELSE IF Contains(content, KickoffPhrase) THEN "kickoff"
    ELSE "none"

\* The keyword tests of lines 164, 205 and 230, in their order.
KeywordClass(content) ==
    IF AnyKeyword(content, VideoKeywords) THEN "video"
    ELSE IF AnyKeyword(content, SearchKeywords) THEN "search"
    ELSE IF Contains(content, KickoffPhrase) THEN "kickoff"
    ELSE "none"

\* search_query of the video branch and of the web search branch
VideoQuery(content) ==
    LET q == StripKeywords(content, VideoStripKeywords)
    IN  IF q = <<>> THEN DefaultVideoQuery ELSE q

\* WebQuery without the strip after each replace
WebQueryUnstripped(content) ==
    LET q == Remove(Remove(Remove(content, KwSearch), KwFind), KwLookFor)
    IN  IF q = <<>> THEN DefaultWebQuery ELSE q

WebQuery(content) ==
    LET q == StripKeywords(content, SearchKeywords)
    IN  IF q = <<>> THEN DefaultWebQuery ELSE q

\* What on_message computes from the text of a message alone, for each message
\* of the model.
Analysis ==
    [m \in Messages \cup IntakeMessages |->
        LET content == Lower(m) IN
        [content |-> content,
         class |-> KeywordClass(content),
         video_query |-> VideoQuery(content),
         web_query |-> WebQuery(content),
         items |-> SplitItems(content)]]

\* Branch with the emptiness tests of activities and habits exchanged
BranchActivitiesFirst(class, ud) ==
    IF class # "none" THEN class
    ELSE IF ud.energizing_activities = <<>> THEN "activities"
    ELSE IF ud.current_habits = <<>> THEN "habits"
    ELSE IF ud.goals = <<>> THEN "goals"
    ELSE "freeform"

\* Branch with the intake of habits ahead of the keyword branches
BranchIntakeFirst(class, ud) ==
    IF ud.current_habits = <<>> THEN "habits"
    ELSE IF class # "none" THEN class
    ELSE IF ud.energizing_activities = <<>> THEN "activities"
    ELSE IF ud.goals = <<>> THEN "goals"
    ELSE "freeform"

\* The branch taken: a keyword branch, or else the first empty preference list.
Branch(class, ud) ==
    IF class # "none" THEN class
    ELSE IF ud.current_habits = <<>> THEN "habits"
    ELSE IF ud.energizing_activities = <<>> THEN "activities"
    ELSE IF ud.goals = <<>> THEN "goals"
    ELSE "freeform"

\* The preference list each intake branch assigns
ListOf ==
    [b \in {"habits", "activities", "goals"} |->
        IF b = "habits" THEN "current_habits"
        ELSE IF b = "activities" THEN "energizing_activities"
        ELSE "goals"]

\* Intake without the emptiness test of goals: a free-form turn assigns goals again
IntakeReassignsGoals(branch, items, ud) ==
    IF branch = "habits" THEN [ud EXCEPT !.current_habits = items]
    ELSE IF branch = "activities" THEN [ud EXCEPT !.energizing_activities = items]
    ELSE IF branch \in {"goals", "freeform"} THEN [ud EXCEPT !.goals = items]
    ELSE ud

\* The assignment of an intake branch, made before its completion call.
Intake(branch, items, ud) ==
    IF branch = "habits" THEN [ud EXCEPT !.current_habits = items]
    ELSE IF branch = "activities" THEN [ud EXCEPT !.energizing_activities = items]
    ELSE IF branch = "goals" THEN [ud EXCEPT !.goals = items]
    ELSE ud

\* FirstRequest with the lowered text in place of message.content in the
\* free-form branch
FirstRequestLoweredPrompt(branch, raw, ud) ==
    IF branch = "kickoff" THEN
        Request(Fixed("Start a conversation about creating a morning routine. Ask about current habits."),
                [kind |-> "expert"])
    ELSE IF branch = "habits" THEN
        Request(Fixed("Ask about energizing morning activities"),
                [kind |-> "habits", habits |-> Join(ud.current_habits)])
    ELSE IF branch = "activities" THEN
        Request(Fixed("Ask about morning goals"),
                [kind |-> "activities", habits |-> Join(ud.current_habits),
                 activities |-> Join(ud.energizing_activities)])
    ELSE IF branch = "goals" THEN
        Request(Fixed("Generate a morning routine"),
                [kind |-> "routine", habits |-> Join(ud.current_habits),
                 activities |-> Join(ud.energizing_activities), goals |-> Join(ud.goals)])
    ELSE IF branch = "freeform" THEN
        Request(UserText(Lower(raw)),
                [kind |-> "preferences", habits |-> Join(ud.current_habits),
                 activities |-> Join(ud.energizing_activities), goals |-> Join(ud.goals),
                 previous |-> LastN(ud.conversation_history, HistoryWindow)])
    ELSE NoRequest

\* FirstRequest with the question of the habits branch copied into the activities branch
FirstRequestRepeatsQuestion(branch, raw, ud) ==
    IF branch = "kickoff" THEN
        Request(Fixed("Start a conversation about creating a morning routine. Ask about current habits."),
                [kind |-> "expert"])
    ELSE IF branch = "habits" THEN
        Request(Fixed("Ask about energizing morning activities"),
                [kind |-> "habits", habits |-> Join(ud.current_habits)])
    ELSE IF branch = "activities" THEN
        Request(Fixed("Ask about energizing morning activities"),
                [kind |-> "activities", habits |-> Join(ud.current_habits),
                 activities |-> Join(ud.energizing_activities)])
    ELSE IF branch = "goals" THEN
        Request(Fixed("Generate a morning routine"),
                [kind |-> "routine", habits |-> Join(ud.current_habits),
                 activities |-> Join(ud.energizing_activities), goals |-> Join(ud.goals)])
    ELSE IF branch = "freeform" THEN
        Request(UserText(raw),
                [kind |-> "preferences", habits |-> Join(ud.current_habits),
                 activities |-> Join(ud.energizing_activities), goals |-> Join(ud.goals),
                 previous |-> LastN(ud.conversation_history, HistoryWindow)])
    ELSE NoRequest

\* The free-form context built from the history without the current message
FirstRequestBeforeUserEntry(branch, raw, ud) ==
    IF branch = "kickoff" THEN
        Request(Fixed("Start a conversation about creating a morning routine. Ask about current habits."),
                [kind |-> "expert"])
    ELSE IF branch = "habits" THEN
        Request(Fixed("Ask about energizing morning activities"),
                [kind |-> "habits", habits |-> Join(ud.current_habits)])
    ELSE IF branch = "activities" THEN
        Request(Fixed("Ask about morning goals"),
                [kind |-> "activities", habits |-> Join(ud.current_habits),
                 activities |-> Join(ud.energizing_activities)])
    ELSE IF branch = "goals" THEN
        Request(Fixed("Generate a morning routine"),
                [kind |-> "routine", habits |-> Join(ud.current_habits),
                 activities |-> Join(ud.energizing_activities), goals |-> Join(ud.goals)])
    ELSE IF branch = "freeform" THEN
        Request(UserText(raw),
                [kind |-> "preferences", habits |-> Join(ud.current_habits),
                 activities |-> Join(ud.energizing_activities), goals |-> Join(ud.goals),
                 previous |-> LastN(SubSeq(ud.conversation_history, 1,
                                         Len(ud.conversation_history) - 1), HistoryWindow)])
    ELSE NoRequest

\* The first completion request of a branch (ud: user_data after Intake).
FirstRequest(branch, raw, ud) ==
    IF branch = "kickoff" THEN
        Request(Fixed("Start a conversation about creating a morning routine. Ask about current habits."),
                [kind |-> "expert"])
    ELSE IF branch = "habits" THEN
        Request(Fixed("Ask about energizing morning activities"),
                [kind |-> "habits", habits |-> Join(ud.current_habits)])
    ELSE IF branch = "activities" THEN
        Request(Fixed("Ask about morning goals"),
                [kind |-> "activities", habits |-> Join(ud.current_habits),
                 activities |-> Join(ud.energizing_activities)])
    ELSE IF branch = "goals" THEN
        Request(Fixed("Generate a morning routine"),
                [kind |-> "routine", habits |-> Join(ud.current_habits),
                 activities |-> Join(ud.energizing_activities), goals |-> Join(ud.goals)])
    ELSE IF branch = "freeform" THEN
        Request(UserText(raw),
                [kind |-> "preferences", habits |-> Join(ud.current_habits),
                 activities |-> Join(ud.energizing_activities), goals |-> Join(ud.goals),
                 previous |-> LastN(ud.conversation_history, HistoryWindow)])
    ELSE NoRequest

\* The second completion request of the goals branch
FollowUpRequest ==
    Request(Fixed("Ask if they want to make any adjustments or need explanations"),
            [kind |-> "follow_up"])

\* Where the branch first awaits
FirstAwait(branch) ==
    IF branch = "video" THEN "youtube"
    ELSE IF branch = "search" THEN "web"
    ELSE "gemini"

(***************************************************************************)
(* on_message, cut at its awaits.                                          *)
(***************************************************************************)
Log(t, events) == turn[t].trace \o events

\* Receive with the emptiness tests made before a suspension during which the
\* invocation now running began, and the assignment made after it
ReceiveAssignsAfterSuspension(t, m) ==
    /\ turn[t].pc = "idle"
    /\ turns < MaxTurns
    /\ Analysis[m].class \in {"video", "search"} => searches < MaxSearches
    /\ searches' = IF Analysis[m].class \in {"video", "search"} THEN searches + 1 ELSE searches
    /\ LET content == Analysis[m].content
           logged == add_to_conversation_history(user_data, UserText(m), "user", now)
           seen == IF \E u \in Tasks : u # t /\ turn[u].pc # "idle"
                   THEN LET u == CHOOSE u \in Tasks : u # t /\ turn[u].pc # "idle" IN
                        [logged EXCEPT !.current_habits = turn[u].pre.current_habits,
                                       !.energizing_activities = turn[u].pre.energizing_activities,
                                       !.goals = turn[u].pre.goals]
                   ELSE logged
           branch == Branch(Analysis[m].class, seen)
           after == Intake(branch, Analysis[m].items, logged)
       IN  /\ user_data' = after
           /\ turn' = [turn EXCEPT ![t] =
                  [pc |-> FirstAwait(branch), raw |-> m, content |-> content,
                   branch |-> branch,
                   search_query |-> IF branch = "video" THEN Analysis[m].video_query
                                    ELSE IF branch = "search" THEN Analysis[m].web_query
                                    ELSE <<>>,
                   request |-> FirstRequest(branch, m, after),
                   response |-> NoText,
                   stage |-> 1, error |-> "", pre |-> user_data,
                   trace |-> << [ev |-> "append", role |-> "user", content |-> UserText(m)],
                                [ev |-> "dispatch", branch |-> branch] >>
                             \o (IF branch \in DOMAIN ListOf
                                 THEN << [ev |-> "assign", list |-> ListOf[branch]] >>
                                 ELSE << >>),
                   outcome |-> "running"]]
           /\ assigns' = IF branch \in DOMAIN ListOf
                         THEN [assigns EXCEPT ![ListOf[branch]] = @ + 1]
                         ELSE assigns
    /\ now' = now + 1
    /\ turns' = turns + 1
    /\ UNCHANGED <<faults, routine>>

\* Lines 157-173, 205-214, 230-231, 240-242, 251-253, 262-275, 288-297: lower the
\* message, append it to the history, dispatch, and run up to the first await.
Receive(t, m) ==
    /\ turn[t].pc = "idle"
    /\ turns < MaxTurns
    /\ Analysis[m].class \in {"video", "search"} => searches < MaxSearches
    /\ searches' = IF Analysis[m].class \in {"video", "search"} THEN searches + 1 ELSE searches
    /\ LET content == Analysis[m].content
           logged == add_to_conversation_history(user_data, UserText(m), "user", now)
           branch == Branch(Analysis[m].class, logged)
           after == Intake(branch, Analysis[m].items, logged)
       IN  /\ user_data' = after
           /\ turn' = [turn EXCEPT ![t] =
                  [pc |-> FirstAwait(branch), raw |-> m, content |-> content,
                   branch |-> branch,
                   search_query |-> IF branch = "video" THEN Analysis[m].video_query
                                    ELSE IF branch = "search" THEN Analysis[m].web_query
                                    ELSE <<>>,
                   request |-> FirstRequest(branch, m, after),
                   response |-> NoText,
                   stage |-> 1, error |-> "", pre |-> user_data,
                   trace |-> << [ev |-> "append", role |-> "user", content |-> UserText(m)],
                                [ev |-> "dispatch", branch |-> branch] >>
                             \o (IF branch \in DOMAIN ListOf
                                 THEN << [ev |-> "assign", list |-> ListOf[branch]] >>
                                 ELSE << >>),
                   outcome |-> "running"]]
           /\ assigns' = IF branch \in DOMAIN ListOf
                         THEN [assigns EXCEPT ![ListOf[branch]] = @ + 1]
                         ELSE assigns
    /\ now' = now + 1
    /\ turns' = turns + 1
    /\ UNCHANGED <<faults, routine>>

\* Lines 173-184, 200: the first video search and what follows it up to the next await.
SearchYoutube(t) ==
    /\ turn[t].pc = "youtube"
    /\ \E outcome \in VideoOutcomes :
          LET results == search_youtube(outcome)
              call == [ev |-> "youtube", search_query |-> turn[t].search_query,
                       ok |-> outcome.ok, found |-> Len(results)]
          IN  IF results # <<>>
              THEN LET response == RenderVideos("relevant", results) IN
                   /\ user_data' = add_to_conversation_history(user_data, response, "assistant", now)
                   /\ now' = now + 1
                   /\ turn' = [turn EXCEPT ![t].pc = "send", ![t].response = response,
                                  ![t].trace = Log(t, <<call, [ev |-> "append", role |-> "assistant",
                                                               content |-> response]>>)]
              ELSE /\ turn' = [turn EXCEPT ![t].pc = "youtube_fallback",
                                  ![t].trace = Log(t, <<call>>)]
                   /\ UNCHANGED <<user_data, now>>
    /\ UNCHANGED <<turns, faults, searches, assigns, routine>>

\* The fallback search repeating the query of the first search
SearchYoutubeFallbackSameQuery(t) ==
    /\ turn[t].pc = "youtube_fallback"
    /\ \E outcome \in VideoOutcomes :
          LET fallback_results == search_youtube(outcome)
              fallback_query == turn[t].search_query
              call == [ev |-> "youtube", search_query |-> fallback_query,
                       ok |-> outcome.ok, found |-> Len(fallback_results)]
              response == IF fallback_results # <<>>
                          THEN RenderVideos("motivational", fallback_results)
                          ELSE [kind |-> "no_videos"]
          IN  /\ user_data' = add_to_conversation_history(user_data, response, "assistant", now)
              /\ turn' = [turn EXCEPT ![t].pc = "send", ![t].response = response,
                             ![t].trace = Log(t, <<call, [ev |-> "append", role |-> "assistant",
                                                          content |-> response]>>)]
    /\ now' = now + 1
    /\ UNCHANGED <<turns, faults, searches, assigns, routine>>

\* Lines 186-200: the fallback video search.
SearchYoutubeFallback(t) ==
    /\ turn[t].pc = "youtube_fallback"
    /\ \E outcome \in VideoOutcomes :
          LET fallback_results == search_youtube(outcome)
              fallback_query == DefaultVideoQuery
              call == [ev |-> "youtube", search_query |-> fallback_query,
                       ok |-> outcome.ok, found |-> Len(fallback_results)]
              response == IF fallback_results # <<>>
                          THEN RenderVideos("motivational", fallback_results)
                          ELSE [kind |-> "no_videos"]
          IN  /\ user_data' = add_to_conversation_history(user_data, response, "assistant", now)
              /\ turn' = [turn EXCEPT ![t].pc = "send", ![t].response = response,
                             ![t].trace = Log(t, <<call, [ev |-> "append", role |-> "assistant",
                                                          content |-> response]>>)]
    /\ now' = now + 1
    /\ UNCHANGED <<turns, faults, searches, assigns, routine>>

\* SearchWeb reading results[0] before the emptiness test
SearchWebIndexesFirstResult(t) ==
    /\ turn[t].pc = "web"
    /\ \E outcome \in WebOutcomes :
          LET results == search_web(outcome)
              call == [ev |-> "web", search_query |-> turn[t].search_query,
                       ok |-> outcome.ok, found |-> Len(results)]
          IN  IF results = <<>> \/ ~Renderable(results)
              THEN /\ faults < MaxFaults
                   /\ faults' = faults + 1
                   /\ turn' = [turn EXCEPT ![t].pc = "except", ![t].error = "render",
                                  ![t].trace = Log(t, <<call, [ev |-> "raise", error |-> "render"]>>)]
                   /\ UNCHANGED <<user_data, now>>
              ELSE LET response == IF results # <<>> THEN RenderWeb(results)
                                   ELSE [kind |-> "no_results"] IN
                   /\ user_data' = add_to_conversation_history(user_data, response, "assistant", now)
                   /\ now' = now + 1
                   /\ turn' = [turn EXCEPT ![t].pc = "send", ![t].response = response,
                                  ![t].trace = Log(t, <<call, [ev |-> "append", role |-> "assistant",
                                                               content |-> response]>>)]
                   /\ UNCHANGED faults
    /\ UNCHANGED <<turns, searches, assigns, routine>>

\* Lines 214-225: the web search, the rendering of its results (which raises on a
\* snippet that is no string) and the history append.
SearchWeb(t) ==
    /\ turn[t].pc = "web"
    /\ \E outcome \in WebOutcomes :
          LET results == search_web(outcome)
              call == [ev |-> "web", search_query |-> turn[t].search_query,
                       ok |-> outcome.ok, found |-> Len(results)]
          IN  IF ~Renderable(results)
              THEN /\ faults < MaxFaults
                   /\ faults' = faults + 1
                   /\ turn' = [turn EXCEPT ![t].pc = "except", ![t].error = "render",
                                  ![t].trace = Log(t, <<call, [ev |-> "raise", error |-> "render"]>>)]
                   /\ UNCHANGED <<user_data, now>>
              ELSE LET response == IF results # <<>> THEN RenderWeb(results)
                                   ELSE [kind |-> "no_results"] IN
                   /\ user_data' = add_to_conversation_history(user_data, response, "assistant", now)
                   /\ now' = now + 1
                   /\ turn' = [turn EXCEPT ![t].pc = "send", ![t].response = response,
                                  ![t].trace = Log(t, <<call, [ev |-> "append", role |-> "assistant",
                                                               content |-> response]>>)]
                   /\ UNCHANGED faults
    /\ UNCHANGED <<turns, searches, assigns, routine>>

\* Completion without the history append of the reply
CompletionSendsUnlogged(t) ==
    /\ turn[t].pc = "gemini"
    /\ \E ok \in BOOLEAN :
          LET response == get_gemini_response(turn[t].request, ok)
              call == [ev |-> "gemini", request |-> turn[t].request, ok |-> ok]
          IN  /\ ok \/ faults < MaxFaults
              /\ faults' = IF ok THEN faults ELSE faults + 1
              /\ user_data' = user_data
              /\ turn' = [turn EXCEPT ![t].pc = "send", ![t].response = response,
                             ![t].trace = Log(t, <<call>>)]
    /\ now' = now + 1
    /\ UNCHANGED <<turns, searches, assigns, routine>>

\* Completion undoing the assignment of the turn when the provider fails
CompletionRollsBack(t) ==
    /\ turn[t].pc = "gemini"
    /\ \E ok \in BOOLEAN :
          LET response == get_gemini_response(turn[t].request, ok)
              call == [ev |-> "gemini", request |-> turn[t].request, ok |-> ok]
          IN  /\ ok \/ faults < MaxFaults
              /\ faults' = IF ok THEN faults ELSE faults + 1
              /\ user_data' =
                    LET logged == add_to_conversation_history(user_data, response, "assistant", now)
                    IN  IF ~ok /\ turn[t].branch \in DOMAIN ListOf
                        THEN [logged EXCEPT ![ListOf[turn[t].branch]] = <<>>]
                        ELSE logged
              /\ turn' = [turn EXCEPT ![t].pc = "send", ![t].response = response,
                             ![t].trace = Log(t, <<call, [ev |-> "append", role |-> "assistant",
                                                          content |-> response]>>)]
    /\ now' = now + 1
    /\ UNCHANGED <<turns, searches, assigns, routine>>

\* Lines 231-235, 242-246, 253-257, 275-276, 279-283, 297-298: a completion call
\* and the history append of what it returned.
Completion(t) ==
    /\ turn[t].pc = "gemini"
    /\ \E ok \in BOOLEAN :
          LET response == get_gemini_response(turn[t].request, ok)
              call == [ev |-> "gemini", request |-> turn[t].request, ok |-> ok]
          IN  /\ ok \/ faults < MaxFaults
              /\ faults' = IF ok THEN faults ELSE faults + 1
              /\ user_data' = add_to_conversation_history(user_data, response, "assistant", now)
              /\ turn' = [turn EXCEPT ![t].pc = "send", ![t].response = response,
                             ![t].trace = Log(t, <<call, [ev |-> "append", role |-> "assistant",
                                                          content |-> response]>>)]
    /\ now' = now + 1
    /\ UNCHANGED <<turns, searches, assigns, routine>>

\* Send that returns after the first message of the goals branch
SendReturnsAfterRoutine(t) ==
    /\ turn[t].pc = "send"
    /\ \E ok \in BOOLEAN :
          IF ok
          THEN /\ turn' = [turn EXCEPT
                      ![t].pc = IF FALSE
                                THEN "gemini" ELSE "idle",
                      ![t].stage = IF FALSE THEN 2 ELSE @,
                      ![t].request = IF FALSE
                                     THEN FollowUpRequest ELSE @,
                      ![t].outcome = IF FALSE
                                     THEN @ ELSE "returned",
                      ![t].trace = Log(t, <<[ev |-> "send", content |-> turn[t].response]>>)]
               /\ UNCHANGED faults
          ELSE /\ turn' = [turn EXCEPT ![t].pc = "except", ![t].error = "send",
                              ![t].trace = Log(t, <<[ev |-> "raise", error |-> "send"]>>)]
               /\ UNCHANGED faults
    /\ UNCHANGED <<user_data, now, turns, searches, assigns, routine>>

\* Lines 201-202, 226-227, 236-237, 247-248, 258-259, 277, 284-285, 299:
\* await cl.Message(content=response).send(), then return, or go on to the
\* follow-up request of the goals branch; a send that raises enters the handler.
Send(t) ==
    /\ turn[t].pc = "send"
    /\ \E ok \in BOOLEAN :
          IF ok
          THEN /\ turn' = [turn EXCEPT
                      ![t].pc = IF turn[t].branch = "goals" /\ turn[t].stage = 1
                                THEN "gemini" ELSE "idle",
                      ![t].stage = IF turn[t].branch = "goals" /\ turn[t].stage = 1 THEN 2 ELSE @,
                      ![t].request = IF turn[t].branch = "goals" /\ turn[t].stage = 1
                                     THEN FollowUpRequest ELSE @,
                      ![t].outcome = IF turn[t].branch = "goals" /\ turn[t].stage = 1
                                     THEN @ ELSE "returned",
                      ![t].trace = Log(t, <<[ev |-> "send", content |-> turn[t].response]>>)]
               /\ UNCHANGED faults
          ELSE /\ turn' = [turn EXCEPT ![t].pc = "except", ![t].error = "send",
                              ![t].trace = Log(t, <<[ev |-> "raise", error |-> "send"]>>)]
               /\ UNCHANGED faults
    /\ UNCHANGED <<user_data, now, turns, searches, assigns, routine>>

\* Lines 301-304: the handler sends the apology; if that send raises too, the
\* exception leaves on_message.
SendApology(t) ==
    /\ turn[t].pc = "except"
    /\ \E ok \in BOOLEAN :
          IF ok
          THEN /\ turn' = [turn EXCEPT ![t].pc = "idle", ![t].outcome = "returned",
                              ![t].trace = Log(t, <<[ev |-> "send",
                                                     content |-> Apology(turn[t].error)]>>)]
               /\ UNCHANGED faults
          ELSE /\ turn' = [turn EXCEPT ![t].pc = "idle", ![t].outcome = "raised",
                              ![t].trace = Log(t, <<[ev |-> "propagate", error |-> "send"]>>)]
               /\ UNCHANGED faults
    /\ UNCHANGED <<user_data, now, turns, searches, assigns, routine>>

(***************************************************************************)
(* The runtime hands one message at a time to on_message: a message is      *)
(* received only when no invocation is in progress.                        *)
(***************************************************************************)
AllIdle == \A u \in Tasks : turn[u].pc = "idle"
FirstTask == CHOOSE u \in Tasks : \A v \in Tasks : u <= v

Next ==
    \E t \in Tasks :
        \/ \E m \in Messages : AllIdle /\ t = FirstTask /\ Receive(t, m)
        \/ SearchYoutube(t)
        \/ SearchYoutubeFallback(t)
        \/ SearchWeb(t)
        \/ Completion(t)
        \/ Send(t)
        \/ SendApology(t)

Spec == Init /\ [][Next]_vars

(***************************************************************************)
(* on_message under messages that probe the intake: the same steps, one    *)
(* invocation at a time, no message with a video or search keyword.        *)
(***************************************************************************)
NextIntake ==
    \E t \in Tasks :
        \/ \E m \in IntakeMessages : AllIdle /\ t = FirstTask /\ Receive(t, m)
        \/ Completion(t)
        \/ Send(t)
        \/ SendApology(t)

SpecIntake == Init /\ [][NextIntake]_vars

(***************************************************************************)
(* on_message with invocations that interleave: a message can be received  *)
(* while another invocation is suspended at an await.                      *)
(***************************************************************************)
InterleavedMessages == {MsgList, MsgFind}

NextInterleaved ==
    \E t \in Tasks :
        \/ \E m \in InterleavedMessages : turns < MaxInterleaved /\ Receive(t, m)
        \/ SearchWeb(t)
        \/ Completion(t)
        \/ Send(t)
        \/ SendApology(t)

SpecInterleaved == Init /\ [][NextInterleaved]_vars

(***************************************************************************)
(* generate_morning_routine on its own.  on_message never calls it, so it  *)
(* is applied here to every argument of a bounded set: one call, and a     *)
(* second call on the same argument.                                       *)
(***************************************************************************)
ItemMeditate == <<"m","e","d","i","t","a","t","e">>
ItemStretch == <<"s","t","r","e","t","c","h">>
ItemColdShower == <<"c","o","l","d"," ","s","h","o","w","e","r">>
ItemFocus == <<"f","o","c","u","s">>
ItemPadded == <<" ","t","e","a"," ">>

HabitLists == { <<>>, <<ItemMeditate, ItemStretch>>, <<ItemStretch>>, <<ItemPadded, ItemFocus>> }
ActivityLists == { <<>>, <<ItemColdShower>>, <<ItemStretch, ItemColdShower>>, << <<>> >> }
GoalLists == { <<>>, <<ItemFocus>>, <<ItemFocus, ItemMeditate>> }

InitRoutine ==
    /\ \E h \in HabitLists, a \in ActivityLists, g \in GoalLists :
          user_data = [current_habits |-> h, energizing_activities |-> a,
                       goals |-> g, conversation_history |-> <<>>]
    /\ now = 0
    /\ turn = [t \in Tasks |-> IdleTurn]
    /\ turns = 0
    /\ faults = 0
    /\ searches = 0
    /\ assigns = [l \in Lists |-> 0]
    /\ routine = NotGenerated

\* A call of generate_morning_routine(user_data).
GenerateRoutine ==
    /\ routine.calls = "none"
    /\ routine' = [calls |-> "one", given |-> user_data,
                   text |-> generate_morning_routine(user_data)]
    /\ UNCHANGED <<user_data, now, turn, turns, faults, searches, assigns>>

\* A second call on the same record.
GenerateRoutineAgain ==
    /\ routine.calls = "one"
    /\ routine' = [calls |-> "two", given |-> user_data,
                   text |-> generate_morning_routine(user_data),
                   first |-> routine.text]
    /\ UNCHANGED <<user_data, now, turn, turns, faults, searches, assigns>>

NextRoutine == GenerateRoutine \/ GenerateRoutineAgain

SpecRoutine == InitRoutine /\ [][NextRoutine]_vars

(***************************************************************************)
(* Vocabulary of the properties.                                           *)
(***************************************************************************)
\* Messages by what their text contains, case-insensitively.
VideoMessages ==
    {m \in Messages : \E k \in {KwYoutube, KwVideo, KwWatch} : Contains(Lower(m), k)}
SearchMessages ==
    {m \in Messages : \E k \in {KwSearch, KwFind, KwLookFor} : Contains(Lower(m), k)}
KickoffMessages == {m \in Messages : Contains(Lower(m), KickoffPhrase)}
PlainMessages == Messages \ (VideoMessages \cup SearchMessages \cup KickoffMessages)

\* An invocation has begun (it may have ended since); it has ended.
Started(t) == turn[t].branch # "none"
Finished(t) == Started(t) /\ turn[t].pc = "idle"

\* The events of one kind in the trace of an invocation, in order.
Events(t, ev) == SelectSeq(turn[t].trace, LAMBDA e : e.ev = ev)

\* The first empty preference list of a user_data record, in the intake order.
FirstEmpty(ud) ==
    IF ud.current_habits = <<>> THEN "current_habits"
    ELSE IF ud.energizing_activities = <<>> THEN "energizing_activities"
    ELSE IF ud.goals = <<>> THEN "goals"
    ELSE "none"

IsPrefix(a, b) == Len(a) <= Len(b) /\ SubSeq(b, 1, Len(a)) = a

(***************************************************************************)
(* C1: a message without video keyword, search keyword or kickoff phrase,  *)
(* arriving while some preference list is empty, makes on_message assign   *)
(* exactly the first empty list (habits, activities, goals) and leave the  *)
(* other two as they were; no invocation assigns a list that was non-empty *)
(* when it began.                                                          *)
(***************************************************************************)
C1_IntakeFillsFirstEmpty ==
    \A t \in Tasks :
        Started(t) =>
            /\ \A i \in 1..Len(turn[t].trace) :
                  turn[t].trace[i].ev = "assign" => turn[t].pre[turn[t].trace[i].list] = <<>>
            /\ (turn[t].raw \in PlainMessages /\ FirstEmpty(turn[t].pre) # "none") =>
                  LET l == FirstEmpty(turn[t].pre) IN
                  /\ user_data[l] # <<>>
                  /\ \A o \in Lists \ {l} : user_data[o] = turn[t].pre[o]
                  /\ Events(t, "assign") = << [ev |-> "assign", list |-> l] >>

\* An intake turn that found habits filled and activities empty has ended.
C1_Witness ==
    \E t \in Tasks :
        /\ Finished(t)
        /\ turn[t].raw \in PlainMessages
        /\ FirstEmpty(turn[t].pre) = "energizing_activities"
        /\ user_data.energizing_activities # <<>>
        /\ user_data.goals = <<>>

(***************************************************************************)
(* C2: a message containing "video", "youtube" or "watch" in any letter    *)
(* case, whatever else it contains and whatever the intake progress, makes *)
(* on_message call the video search adapter and never the web search       *)
(* adapter in that turn.                                                   *)
(***************************************************************************)
C2_VideoNeverWebSearch ==
    \A t \in Tasks :
        (Started(t) /\ turn[t].raw \in VideoMessages) =>
            /\ Events(t, "web") = <<>>
            /\ turn[t].pc = "youtube" \/ Events(t, "youtube") # <<>>

\* A turn whose message holds a video keyword, a search keyword and the
\* kickoff phrase has ended, after one list had been filled.
C2_Witness ==
    \E t \in Tasks :
        /\ Finished(t)
        /\ turn[t].raw \in VideoMessages \cap SearchMessages \cap KickoffMessages
        /\ turn[t].pre.current_habits # <<>>
        /\ Events(t, "youtube") # <<>>

\* History entries an invocation has added so far.
Added(t) == Len(user_data.conversation_history) - Len(turn[t].pre.conversation_history)

\* An exception of the given kind was raised inside the try block of the invocation.
Raised(t, error) ==
    \E i \in 1..Len(turn[t].trace) :
        turn[t].trace[i].ev = "raise" /\ turn[t].trace[i].error = error

(***************************************************************************)
(* C3 as stated: the history is append-only and every turn adds exactly 2  *)
(* entries, the goals-completion turn exactly 3.                           *)
(***************************************************************************)
C3_EveryTurnAddsTwoOrThree ==
    \A t \in Tasks :
        Finished(t) =>
            /\ IsPrefix(turn[t].pre.conversation_history, user_data.conversation_history)
            /\ Added(t) = IF turn[t].branch = "goals" THEN 3 ELSE 2

(***************************************************************************)
(* C3 amended: the history is append-only (the entries present when a turn *)
(* begins stay as they are, new entries go to the end: one user entry,     *)
(* then assistant entries).  A turn adds exactly 2 entries, except that    *)
(* the goals-completion turn adds 3 when the send of the routine does not  *)
(* raise (2 when it raises: the follow-up is then never requested), and a  *)
(* search-intent turn in which rendering a result raises adds 1 (the       *)
(* apology of the handler is sent but not logged).                         *)
(***************************************************************************)
C3_HistoryGrowth ==
    \A t \in Tasks :
        Started(t) =>
            LET old == turn[t].pre.conversation_history
                new == user_data.conversation_history
            IN  /\ IsPrefix(old, new)
                /\ Len(new) > Len(old)
                /\ new[Len(old) + 1] = Message("user", UserText(turn[t].raw), new[Len(old) + 1].timestamp)
                /\ \A i \in (Len(old) + 2)..Len(new) : new[i].role = "assistant"
                /\ Finished(t) =>
                      Added(t) = IF turn[t].branch = "search" /\ Raised(t, "render") THEN 1
                                 ELSE IF turn[t].branch = "goals" /\ Len(Events(t, "gemini")) = 2 THEN 3
                                 ELSE 2

\* A goals-completion turn has ended with three entries added.
C3_Witness ==
    \E t \in Tasks : Finished(t) /\ turn[t].branch = "goals" /\ Added(t) = 3

(***************************************************************************)
(* C4: the preference lists respect the fill order (activities non-empty   *)
(* implies habits non-empty, goals non-empty implies activities non-empty),*)
(* a list that is non-empty when a turn begins is left as it is by that    *)
(* turn, and each list is assigned at most once.                           *)
(***************************************************************************)
C4_FillOrderAndFrozen ==
    /\ user_data.energizing_activities # <<>> => user_data.current_habits # <<>>
    /\ user_data.goals # <<>> => user_data.energizing_activities # <<>>
    /\ \A l \in Lists : assigns[l] <= 1 /\ (assigns[l] = 0 <=> user_data[l] = <<>>)
    /\ \A t \in Tasks :
          Started(t) => \A l \in Lists : turn[t].pre[l] # <<>> => user_data[l] = turn[t].pre[l]

\* A turn that began with all three lists filled has ended.
C4_Witness ==
    \E t \in Tasks :
        /\ Finished(t)
        /\ turn[t].raw \in PlainMessages
        /\ \A l \in Lists : turn[t].pre[l] # <<>>

\* The preference list a completion request asks the user about, if any.
AskedList(request) ==
    IF request.prompt = Fixed("Start a conversation about creating a morning routine. Ask about current habits.")
    THEN "current_habits"
    ELSE IF request.prompt = Fixed("Ask about energizing morning activities")
    THEN "energizing_activities"
    ELSE IF request.prompt = Fixed("Ask about morning goals")
    THEN "goals"
    ELSE "none"

\* Messages with the kickoff phrase and neither a video nor a search keyword
KickoffOnlyMessages == KickoffMessages \ (VideoMessages \cup SearchMessages)

(***************************************************************************)
(* C5 as stated: no completion request asks the user about a preference    *)
(* list that is non-empty.                                                 *)
(***************************************************************************)
C5_NeverReasked ==
    \A t \in Tasks :
        \A i \in 1..Len(turn[t].trace) :
            (turn[t].trace[i].ev = "gemini" /\ AskedList(turn[t].trace[i].request) # "none") =>
                user_data[AskedList(turn[t].trace[i].request)] = <<>>

(***************************************************************************)
(* C5 amended: a completion request that asks about a non-empty preference *)
(* list is made only by the kickoff branch, about current habits; the      *)
(* intake branches ask about activities and about goals only while that    *)
(* list is empty.  A message with the kickoff phrase (and no video or      *)
(* search keyword) makes on_message ask about current habits whether or    *)
(* not current_habits is empty.                                            *)
(***************************************************************************)
C5_OnlyKickoffReasks ==
    \A t \in Tasks :
        /\ \A i \in 1..Len(turn[t].trace) :
              (turn[t].trace[i].ev = "gemini" /\ AskedList(turn[t].trace[i].request) # "none") =>
                  \/ user_data[AskedList(turn[t].trace[i].request)] = <<>>
                  \/ /\ AskedList(turn[t].trace[i].request) = "current_habits"
                     /\ turn[t].raw \in KickoffOnlyMessages
        /\ (Started(t) /\ turn[t].raw \in KickoffOnlyMessages /\ turn[t].pc # "gemini") =>
              /\ Len(Events(t, "gemini")) = 1
              /\ AskedList(Events(t, "gemini")[1].request) = "current_habits"

\* A kickoff turn has asked about current habits although they were filled.
C5_Witness ==
    \E t \in Tasks :
        /\ Finished(t)
        /\ turn[t].raw \in KickoffOnlyMessages
        /\ turn[t].pre.current_habits # <<>>
        /\ Len(Events(t, "gemini")) = 1
        /\ AskedList(Events(t, "gemini")[1].request) = "current_habits"

\* The history as the dispatch of an invocation saw it: the history on entry
\* and the entry of the incoming message.
HistoryAtDispatch(t) ==
    SubSeq(user_data.conversation_history, 1, Len(turn[t].pre.conversation_history) + 1)

\* The free-form request: the raw message, with the three preference lists and
\* the newest history entries as context.
FreeFormRequest(t) ==
    Request(UserText(turn[t].raw),
            [kind |-> "preferences",
             habits |-> Join(turn[t].pre.current_habits),
             activities |-> Join(turn[t].pre.energizing_activities),
             goals |-> Join(turn[t].pre.goals),
             previous |-> LastN(HistoryAtDispatch(t), HistoryWindow)])

(***************************************************************************)
(* C6 as stated: once all three preference lists are non-empty, every      *)
(* message without video and search keyword takes the free-form branch.    *)
(***************************************************************************)
C6_FreeFormUnlessSearch ==
    \A t \in Tasks :
        ( /\ Started(t)
          /\ \A l \in Lists : turn[t].pre[l] # <<>>
          /\ turn[t].raw \notin VideoMessages \cup SearchMessages ) =>
            turn[t].branch = "freeform"

(***************************************************************************)
(* C6 amended: once all three preference lists are non-empty, every        *)
(* message without video keyword, search keyword and kickoff phrase takes  *)
(* the free-form branch: one completion call, with the raw message as      *)
(* prompt and the preferences and newest history entries as context.  A    *)
(* message with the kickoff phrase takes the kickoff branch instead.       *)
(***************************************************************************)
C6_FreeFormUnlessKeyword ==
    \A t \in Tasks :
        (Started(t) /\ \A l \in Lists : turn[t].pre[l] # <<>>) =>
            /\ turn[t].raw \in KickoffOnlyMessages => turn[t].branch = "kickoff"
            /\ turn[t].raw \in PlainMessages =>
                  /\ turn[t].branch = "freeform"
                  /\ Events(t, "assign") = <<>>
                  /\ turn[t].pc = "gemini" => Events(t, "gemini") = <<>>
                  /\ turn[t].pc # "gemini" =>
                        /\ Len(Events(t, "gemini")) = 1
                        /\ Events(t, "gemini")[1].request = FreeFormRequest(t)

\* A free-form turn with a message in mixed letter case has ended.
C6_Witness ==
    \E t \in Tasks :
        /\ Finished(t)
        /\ turn[t].branch = "freeform"
        /\ turn[t].raw = MsgWord
        /\ Len(Events(t, "gemini")) = 1

(***************************************************************************)
(* C7: a message with a video keyword, a search keyword or the kickoff     *)
(* phrase takes the video, search or kickoff branch in every intake state, *)
(* ahead of intake, and such a turn leaves the three preference lists      *)
(* unchanged.                                                              *)
(***************************************************************************)
C7_KeywordBranchesLeaveLists ==
    \A t \in Tasks :
        Started(t) =>
            /\ turn[t].raw \in VideoMessages => turn[t].branch = "video"
            /\ turn[t].raw \in SearchMessages \ VideoMessages => turn[t].branch = "search"
            /\ turn[t].raw \in KickoffOnlyMessages => turn[t].branch = "kickoff"
            /\ turn[t].branch \in {"video", "search", "kickoff"} =>
                  /\ \A l \in Lists : user_data[l] = turn[t].pre[l]
                  /\ Events(t, "assign") = <<>>

\* A kickoff turn has ended that began with habits filled and activities empty.
C7_Witness ==
    \E t \in Tasks :
        /\ Finished(t)
        /\ turn[t].branch = "kickoff"
        /\ turn[t].pre.current_habits # <<>>
        /\ user_data.energizing_activities = <<>>

\* The kinds of the events of an invocation, in order.
Kinds(t) == [i \in 1..Len(turn[t].trace) |-> turn[t].trace[i].ev]

\* The events of an invocation before its try block raised (all, if it did not).
BeforeRaise(t) ==
    IF \E i \in 1..Len(turn[t].trace) : turn[t].trace[i].ev = "raise"
    THEN SubSeq(Kinds(t), 1,
                (CHOOSE i \in 1..Len(turn[t].trace) :
                    /\ turn[t].trace[i].ev = "raise"
                    /\ \A j \in 1..(i - 1) : turn[t].trace[j].ev # "raise") - 1)
    ELSE Kinds(t)

NoRaise(t) == \A i \in 1..Len(turn[t].trace) : turn[t].trace[i].ev # "raise"

\* The steps of a goals-completion turn in program order.
GoalsSteps ==
    <<"append", "dispatch", "assign", "gemini", "append", "send", "gemini", "append", "send">>

RoutinePrompt == Fixed("Generate a morning routine")
FollowUpPrompt == Fixed("Ask if they want to make any adjustments or need explanations")

\* The text a completion call of the trace returned.
Returned(call) == get_gemini_response(call.request, call.ok)

C9_SendBeforeAppend ==
    \A t \in Tasks :
        Started(t) =>
            /\ turn[t].trace[1] = [ev |-> "append", role |-> "user", content |-> UserText(turn[t].raw)]
            /\ turn[t].trace[2].ev = "dispatch"
            /\ \A i \in 1..Len(turn[t].trace) :
                  (turn[t].trace[i].ev = "append" /\ turn[t].trace[i].role = "assistant") =>
                      \E j \in 1..(i - 1) :
                          /\ turn[t].trace[j].ev = "send"
                          /\ turn[t].trace[j].content = turn[t].trace[i].content

(***************************************************************************)
(* C9 amended: the incoming message is appended to the history before      *)
(* dispatch, and each generated assistant message is appended to the       *)
(* history before it is sent: the append is the step just before the send. *)
(* The only message sent without being appended is the apology of the      *)
(* outer handler.                                                          *)
(***************************************************************************)
C9_AppendBeforeSend ==
    \A t \in Tasks :
        Started(t) =>
            LET tr == turn[t].trace
                appended == SelectSeq(tr, LAMBDA e : e.ev = "append")
                old == Len(turn[t].pre.conversation_history)
                new == user_data.conversation_history
            IN  /\ tr[1] = [ev |-> "append", role |-> "user", content |-> UserText(turn[t].raw)]
                /\ tr[2].ev = "dispatch"
                /\ Len(new) = old + Len(appended)
                /\ \A i \in 1..Len(appended) :
                      /\ new[old + i].role = appended[i].role
                      /\ new[old + i].content = appended[i].content
                /\ \A j \in 1..Len(tr) :
                      tr[j].ev = "send" =>
                          \/ /\ tr[j - 1].ev = "append"
                             /\ tr[j - 1].role = "assistant"
                             /\ tr[j - 1].content = tr[j].content
                          \/ /\ tr[j - 1].ev = "raise"
                             /\ tr[j].content = Apology(tr[j - 1].error)
                /\ \A i \in 3..(Len(tr) - 1) :
                      tr[i].ev = "append" => tr[i + 1].ev \in {"send", "raise"}

\* A turn has sent an assistant message that the history already held.
C9_Witness ==
    \E t \in Tasks :
        /\ turn[t].pc = "idle"
        /\ Len(turn[t].trace) >= 2
        /\ turn[t].trace[Len(turn[t].trace)].ev = "send"
        /\ turn[t].trace[Len(turn[t].trace) - 1].ev = "append"
        /\ turn[t].trace[Len(turn[t].trace)].content =
              user_data.conversation_history[Len(user_data.conversation_history)].content

QueryArticlesOnSleep ==
    <<"a","r","t","i","c","l","e","s"," ","o","n"," ","s","l","e","e","p">>
QueryMeArticlesOnSleep == <<"m","e"," ">> \o QueryArticlesOnSleep

(***************************************************************************)
(* C10 as stated: for "find me articles on sleep" the web search adapter   *)
(* is called exactly once, with the query "articles on sleep".             *)
(***************************************************************************)
C10_QueryArticlesOnSleep ==
    \A t \in Tasks :
        (Finished(t) /\ turn[t].raw = MsgFind) =>
            /\ Len(Events(t, "web")) = 1
            /\ Events(t, "web")[1].search_query = QueryArticlesOnSleep

(***************************************************************************)
(* C10 amended: for "find me articles on sleep", in any intake state, the  *)
(* search-intent branch fires and the web search adapter is called exactly *)
(* once, with the query "me articles on sleep" (only the keyword "find"    *)
(* and the surrounding blanks are removed); no video search and no         *)
(* completion call is made.                                                *)
(***************************************************************************)
C10_QueryMeArticlesOnSleep ==
    \A t \in Tasks :
        (Started(t) /\ turn[t].raw = MsgFind) =>
            /\ turn[t].branch = "search"
            /\ Events(t, "youtube") = <<>>
            /\ Events(t, "gemini") = <<>>
            /\ turn[t].pc = "web" => Events(t, "web") = <<>>
            /\ turn[t].pc # "web" =>
                  /\ Len(Events(t, "web")) = 1
                  /\ Events(t, "web")[1].search_query = QueryMeArticlesOnSleep

\* A turn for "find me articles on sleep" has ended that began with two lists filled.
C10_Witness ==
    \E t \in Tasks :
        /\ Finished(t)
        /\ turn[t].raw = MsgFind
        /\ turn[t].pre.energizing_activities # <<>>
        /\ Len(Events(t, "web")) = 1

\* The reply of lines 225-226 when search_web found nothing.
NoResults == [kind |-> "no_results"]

\* The web search of a search-intent invocation has returned no result.
FoundNothing(t) ==
    /\ turn[t].branch = "search"
    /\ \E i \in 1..Len(turn[t].trace) :
          turn[t].trace[i].ev = "web" /\ turn[t].trace[i].found = 0

\* Two user_data records hold the same three preference lists.
SameLists(ud1, ud2) == \A l \in Lists : ud1[l] = ud2[l]

C12_OnlyVideoSearchRetries ==
    \A t \in Tasks :
        Started(t) =>
            LET videos == Events(t, "youtube")
                webs == Events(t, "web")
                calls == Events(t, "gemini")
            IN  IF turn[t].branch = "video"
                THEN /\ Len(videos) <= 2
                     /\ Len(videos) = 2 =>
                           /\ videos[1].found = 0
                           /\ videos[2].search_query = DefaultVideoQuery
                     /\ (Len(videos) = 1 /\ turn[t].pc # "youtube_fallback") =>
                           videos[1].found > 0
                     /\ webs = <<>> /\ calls = <<>>
                ELSE /\ videos = <<>>
                     /\ Len(webs) <= 1
                     /\ turn[t].branch # "search" => webs = <<>>
                     /\ turn[t].branch = "search" => calls = <<>>
                     /\ Len(calls) <= IF turn[t].branch = "goals" THEN 2 ELSE 1
                     /\ \A i, j \in 1..Len(calls) :
                           i # j => calls[i].request # calls[j].request

\* A video-intent turn has ended after a first search for the user's own query
\* that failed and a second search for the default query.
C12_Witness ==
    \E t \in Tasks :
        /\ Finished(t)
        /\ turn[t].branch = "video"
        /\ Len(Events(t, "youtube")) = 2
        /\ ~Events(t, "youtube")[1].ok
        /\ Events(t, "youtube")[1].search_query # DefaultVideoQuery
        /\ Events(t, "youtube")[2].search_query = DefaultVideoQuery

\* The apologies of the outer handler that an invocation has sent.
ApologiesSent(t) ==
    SelectSeq(turn[t].trace,
              LAMBDA e : e.ev = "send" /\ e.content \in {Apology("send"), Apology("render")})

(***************************************************************************)
(* C13 as stated: when a step of the dispatch raises (a send, or the       *)
(* rendering of a search result), the outer handler catches the exception, *)
(* exactly one apology is sent and on_message returns normally.            *)
(***************************************************************************)
C13_ApologyThenNormalReturn ==
    \A t \in Tasks :
        (Finished(t) /\ ~NoRaise(t)) =>
            /\ Len(ApologiesSent(t)) = 1
            /\ turn[t].outcome = "returned"

(***************************************************************************)
(* C13, what the code does: an exception raised by a step of the dispatch  *)
(* always reaches the outer handler, which attempts one send of the        *)
(* apology and logs nothing.  When that send completes, exactly one        *)
(* apology has been sent and on_message returns normally; when it raises,  *)
(* no apology has been sent and the exception leaves on_message.           *)
(***************************************************************************)
C13_HandlerSendIsUnguarded ==
    \A t \in Tasks :
        (Started(t) /\ ~NoRaise(t)) =>
            LET tr == turn[t].trace
                first == CHOOSE i \in 1..Len(tr) : tr[i].ev = "raise"
            IN  /\ Len(BeforeRaise(t)) = first - 1
                /\ turn[t].pc \in {"except", "idle"}
                /\ turn[t].pc = "except" => first = Len(tr)
                /\ Finished(t) =>
                      /\ Len(tr) = first + 1
                      /\ \/ /\ tr[first + 1] = [ev |-> "send", content |-> Apology(tr[first].error)]
                            /\ turn[t].outcome = "returned"
                            /\ Len(ApologiesSent(t)) = 1
                         \/ /\ tr[first + 1] = [ev |-> "propagate", error |-> "send"]
                            /\ turn[t].outcome = "raised"
                            /\ ApologiesSent(t) = <<>>

\* A send has raised, the send of the apology has raised as well, and the
\* exception has left on_message.
C13_Witness ==
    \E t \in Tasks :
        /\ Finished(t)
        /\ Raised(t, "send")
        /\ turn[t].outcome = "raised"

\* The number of completion calls the claim gives each branch.
CallsOf ==
    [video |-> 0, search |-> 0, kickoff |-> 1, habits |-> 1, activities |-> 1,
     freeform |-> 1, goals |-> 2]

\* The invocation handles the first message of a session.
FirstEver(t) ==
    /\ Started(t)
    /\ turn[t].pre = [current_habits |-> <<>>, energizing_activities |-> <<>>,
                      goals |-> <<>>, conversation_history |-> <<>>]

(***************************************************************************)
(* C14 as stated: the number of completion calls of a turn is fixed by its *)
(* branch: none in the video and search branches, one in the kickoff,      *)
(* habits, activities and free-form branches, two in the goals branch.     *)
(***************************************************************************)
C14_CallsFixedByBranch ==
    \A t \in Tasks :
        Finished(t) => Len(Events(t, "gemini")) = CallsOf[turn[t].branch]

(***************************************************************************)
(* C14 amended: a turn of the video or search branch makes no completion   *)
(* call; a turn of the kickoff, habits, activities or free-form branch     *)
(* makes exactly one; a turn of the goals branch makes exactly two, except *)
(* that it makes one when the send of the routine raises.  The first       *)
(* message of a session, "a, b, c", sets current_habits to a, b, c, leaves *)
(* the other two lists empty and makes exactly one completion call, which  *)
(* asks about energizing activities.                                       *)
(***************************************************************************)
C14_CallsByBranch ==
    \A t \in Tasks :
        LET calls == Events(t, "gemini") IN
        /\ Started(t) => Len(calls) <= CallsOf[turn[t].branch]
        /\ (Started(t) /\ turn[t].pc # "gemini" /\ CallsOf[turn[t].branch] > 0) =>
              Len(calls) >= 1
        /\ (Finished(t) /\ turn[t].branch = "goals") =>
              IF Events(t, "send") # <<>> /\ Events(t, "send")[1].content = Returned(calls[1])
              THEN Len(calls) = 2
              ELSE Len(calls) = 1 /\ Raised(t, "send")
        /\ (Finished(t) /\ turn[t].branch # "goals") =>
              Len(calls) = CallsOf[turn[t].branch]
        /\ (FirstEver(t) /\ turn[t].raw = MsgList) =>
              /\ user_data.current_habits = << <<"a">>, <<"b">>, <<"c">> >>
              /\ user_data.energizing_activities = <<>>
              /\ user_data.goals = <<>>
              /\ turn[t].pc # "gemini" =>
                    /\ Len(calls) = 1
                    /\ AskedList(calls[1].request) = "energizing_activities"

\* The first message of a session, "a, b, c", has been handled to the end.
C14_Witness ==
    \E t \in Tasks :
        /\ Finished(t)
        /\ FirstEver(t)
        /\ turn[t].raw = MsgList
        /\ Len(Events(t, "gemini")) = 1
        /\ user_data.current_habits = << <<"a">>, <<"b">>, <<"c">> >>

\* The trimmed comma-separated segments of each message as it was received.
RawItems == [m \in Messages \cup IntakeMessages |-> SplitItems(m)]

\* The invocation took an intake branch.
IsIntake(t) == Started(t) /\ turn[t].branch \in DOMAIN ListOf

(***************************************************************************)
(* C15 as stated: in an intake turn the list that is set holds the         *)
(* comma-separated segments of the message as received, each trimmed, in   *)
(* the same order and in the original letter case.                         *)
(***************************************************************************)
C15_ItemsKeepLetterCase ==
    \A t \in Tasks :
        IsIntake(t) => user_data[ListOf[turn[t].branch]] = RawItems[turn[t].raw]

(***************************************************************************)
(* C15, what the code does: in an intake turn the list that is set holds   *)
(* the trimmed comma-separated segments of the message, in the same order, *)
(* each in lower case: the message "Run" is stored as the item "run".      *)
(***************************************************************************)
C15_ItemsAreLowered ==
    \A t \in Tasks :
        IsIntake(t) =>
            LET list == user_data[ListOf[turn[t].branch]]
                segments == RawItems[turn[t].raw]
            IN  /\ Len(list) = Len(segments)
                /\ \A i \in 1..Len(list) : list[i] = Lower(segments[i])
                /\ turn[t].raw = MsgWord => list = << <<"r", "u", "n">> >>

\* The message "Run" has been taken as the list of current habits.
C15_Witness ==
    \E t \in Tasks :
        /\ IsIntake(t)
        /\ turn[t].raw = MsgWord
        /\ turn[t].branch = "habits"
        /\ user_data.current_habits = << <<"r", "u", "n">> >>

(***************************************************************************)
(* C16: the context of the free-form completion call holds the three       *)
(* preference lists and exactly the last min(5, length) entries of the     *)
(* history as it is when the branch is taken.  The last of these entries   *)
(* is the user entry of the current message, so that at most 4 entries     *)
(* come from earlier turns.                                                *)
(***************************************************************************)
C16_ContextHoldsLastFive ==
    \A t \in Tasks :
        (Started(t) /\ turn[t].branch = "freeform") =>
            LET context == turn[t].request.context
                previous == context.previous
                earlier == turn[t].pre.conversation_history
                history == HistoryAtDispatch(t)
                k == IF Len(history) < HistoryWindow THEN Len(history) ELSE HistoryWindow
            IN  /\ context.habits = Join(user_data.current_habits)
                /\ context.activities = Join(user_data.energizing_activities)
                /\ context.goals = Join(user_data.goals)
                /\ Len(history) = Len(earlier) + 1
                /\ Len(previous) = k
                /\ \A i \in 1..k : previous[i] = history[Len(history) - k + i]
                /\ previous[k].role = "user"
                /\ previous[k].content = UserText(turn[t].raw)
                /\ \A i \in 1..(k - 1) : previous[i] = earlier[Len(earlier) - (k - 1) + i]
                /\ k - 1 <= 4
                /\ \A i \in 1..Len(Events(t, "gemini")) :
                      Events(t, "gemini")[i].request.context = context

\* A free-form call has been made with a history of more than five entries.
C16_Witness ==
    \E t \in Tasks :
        /\ turn[t].branch = "freeform"
        /\ Len(Events(t, "gemini")) = 1
        /\ Len(HistoryAtDispatch(t)) > HistoryWindow
        /\ Len(turn[t].request.context.previous) = HistoryWindow

\* The argument of the example: habits meditate and stretch, activity cold
\* shower, goal focus.
ExampleState ==
    [current_habits |-> <<ItemMeditate, ItemStretch>>,
     energizing_activities |-> <<ItemColdShower>>,
     goals |-> <<ItemFocus>>, conversation_history |-> <<>>]

\* A line is in a text; where it is.
HasLine(text, line) == \E i \in 1..Len(text) : text[i] = line
Pos(text, line) == CHOOSE i \in 1..Len(text) : text[i] = line

\* The heading is in the text exactly when the list is non-empty, and then it
\* is directly followed by the items of the list, in order, and by a fixed line.
SectionOf(text, heading, list) ==
    /\ HasLine(text, heading) <=> list # <<>>
    /\ \A i, j \in 1..Len(text) : (text[i] = heading /\ text[j] = heading) => i = j
    /\ list # <<>> =>
          LET p == Pos(text, heading) IN
          /\ Len(text) > p + Len(list)
          /\ \A i \in 1..Len(list) :
                text[p + i] = [kind |-> "bullet", item |-> Strip(list[i])]
          /\ text[p + Len(list) + 1].kind = "line"

(***************************************************************************)
(* C17: generate_morning_routine, given the habits meditate and stretch,   *)
(* the activity cold shower and the goal focus, returns a text holding     *)
(* every item verbatim and the fixed tips block, the activities section    *)
(* before the habits section before the goals section and the tips block   *)
(* last.  For every argument a section is in the text exactly when its     *)
(* list is non-empty, the argument is left unchanged, and a second call on *)
(* the same argument returns the same text.                                *)
(***************************************************************************)
C17_RoutineSections ==
    routine.calls # "none" =>
        LET text == routine.text
            ud == routine.given
            n == Len(text)
        IN  /\ user_data = ud
            /\ SectionOf(text, ActivitiesHeading, ud.energizing_activities)
            /\ SectionOf(text, HabitsHeading, ud.current_habits)
            /\ SectionOf(text, GoalsHeading, ud.goals)
            /\ (HasLine(text, ActivitiesHeading) /\ HasLine(text, HabitsHeading)) =>
                  Pos(text, ActivitiesHeading) < Pos(text, HabitsHeading)
            /\ (HasLine(text, HabitsHeading) /\ HasLine(text, GoalsHeading)) =>
                  Pos(text, HabitsHeading) < Pos(text, GoalsHeading)
            /\ (HasLine(text, ActivitiesHeading) /\ HasLine(text, GoalsHeading)) =>
                  Pos(text, ActivitiesHeading) < Pos(text, GoalsHeading)
            /\ n >= 7
            /\ text[1] = RoutineTitle
            /\ SubSeq(text, n - 4, n) = TipsBlock
            /\ \A i \in 1..(n - 4) : text[i] # TextLine("Tips:")
            /\ ud = ExampleState =>
                  text = << RoutineTitle, TextLine(""),
                            ActivitiesHeading,
                            [kind |-> "bullet", item |-> ItemColdShower],
                            TextLine(""), HabitsHeading,
                            [kind |-> "bullet", item |-> ItemMeditate],
                            [kind |-> "bullet", item |-> ItemStretch],
                            TextLine(""), GoalsHeading,
                            [kind |-> "bullet", item |-> ItemFocus] >> \o TipsBlock
            /\ routine.calls = "two" => text = routine.first

\* generate_morning_routine has been called twice on the argument of the example.
C17_Witness ==
    /\ routine.calls = "two"
    /\ routine.given = ExampleState
    /\ HasLine(routine.text, [kind |-> "bullet", item |-> ItemColdShower])

\* The list the intake turns to after each list.
NextList ==
    [current_habits |-> "energizing_activities", energizing_activities |-> "goals",
     goals |-> "none"]

\* The number of preference lists that are non-empty; of assignments so far.
Filled == Cardinality({l \in Lists : user_data[l] # <<>>})
Assigned == assigns.current_habits + assigns.energizing_activities + assigns.goals

(***************************************************************************)
(* C18: every intake turn advances the intake by exactly one step whatever *)
(* the message text.  The list it assigns is non-empty afterwards (the     *)
(* empty message and a message without comma give a list of one item), the *)
(* first empty list moves on to the next list, and no other turn moves it. *)
(* The number of filled lists equals the number of intake turns so far, so *)
(* after three intake turns all three lists are filled and no list is ever *)
(* assigned twice.                                                         *)
(***************************************************************************)
C18_IntakeAlwaysAdvances ==
    /\ \A t \in Tasks :
          IsIntake(t) =>
              LET list == user_data[ListOf[turn[t].branch]] IN
              /\ list # <<>>
              /\ ~Contains(turn[t].raw, <<",">>) => Len(list) = 1
              /\ turn[t].raw = MsgEmpty => list = << <<>> >>
              /\ FirstEmpty(turn[t].pre) = ListOf[turn[t].branch]
              /\ FirstEmpty(user_data) = NextList[FirstEmpty(turn[t].pre)]
    /\ \A t \in Tasks :
          (Started(t) /\ ~IsIntake(t)) => FirstEmpty(user_data) = FirstEmpty(turn[t].pre)
    /\ Filled = Assigned
    /\ \A l \in Lists : assigns[l] <= 1
    /\ Assigned = 3 => \A l \in Lists : user_data[l] # <<>>

\* Three intake turns have ended, the empty message among them, and a fourth
\* message has taken the free-form branch.
C18_Witness ==
    /\ Assigned = 3
    /\ user_data.energizing_activities = << <<>> >>
    /\ \E t \in Tasks : Finished(t) /\ turn[t].branch = "freeform" /\ turn[t].raw = MsgEmpty

\* The apology string get_gemini_response returns when the provider fails.
CompletionApology == Apology("gemini")

\* Positions of the failed completion calls in the trace of an invocation.
FailedCalls(t) ==
    {i \in 1..Len(turn[t].trace) : turn[t].trace[i].ev = "gemini" /\ ~turn[t].trace[i].ok}

\* The last entry of the history an invocation found is the apology string.
AfterFailedCall(t) ==
    LET earlier == turn[t].pre.conversation_history IN
    earlier # <<>> /\ earlier[Len(earlier)].content = CompletionApology

OwnEntriesInOrder(t) ==
    LET own == Events(t, "append")
        history == user_data.conversation_history
        first == Len(turn[t].pre.conversation_history) + 1
        Is(p, i) == history[p].role = own[i].role /\ history[p].content = own[i].content
    IN  /\ Len(history) >= first
        /\ Is(first, 1)
        /\ \A i \in 2..Len(own) :
              \E p, q \in first..Len(history) : p < q /\ Is(p, i - 1) /\ Is(q, i)

(***************************************************************************)
(* C20: when invocations of on_message interleave at their awaits, each    *)
(* preference list is still assigned at most once and the lists are still  *)
(* filled in the order habits, activities, goals: an invocation assigns    *)
(* the list that is the first empty one when it receives its message, in   *)
(* the same step as the emptiness test, and a non-empty list is never      *)
(* changed.  The history stays append-only and holds the entries of each   *)
(* invocation in its own order, with entries of the other in between.      *)
(***************************************************************************)
C20_InterleavingKeepsFillOrder ==
    /\ user_data.energizing_activities # <<>> => user_data.current_habits # <<>>
    /\ user_data.goals # <<>> => user_data.energizing_activities # <<>>
    /\ \A l \in Lists : assigns[l] <= 1 /\ (assigns[l] = 0 <=> user_data[l] = <<>>)
    /\ \A t \in Tasks :
          Started(t) =>
              /\ \A l \in Lists : turn[t].pre[l] # <<>> => user_data[l] = turn[t].pre[l]
              /\ IsIntake(t) =>
                    /\ ListOf[turn[t].branch] = FirstEmpty(turn[t].pre)
                    /\ user_data[ListOf[turn[t].branch]] = Analysis[turn[t].raw].items
                    /\ turn[t].trace[3] = [ev |-> "assign", list |-> ListOf[turn[t].branch]]
              /\ \A i \in 4..Len(turn[t].trace) : turn[t].trace[i].ev # "assign"
              /\ IsPrefix(turn[t].pre.conversation_history, user_data.conversation_history)
              /\ OwnEntriesInOrder(t)

\* Two invocations are suspended, one having assigned the habits and the other
\* the activities, and the history begins with their two user entries.
C20_Witness ==
    \E t, u \in Tasks :
        /\ turn[t].pc = "gemini" /\ turn[t].branch = "habits"
        /\ turn[u].pc = "gemini" /\ turn[u].branch = "activities"
        /\ Len(user_data.conversation_history) = 2
        /\ user_data.conversation_history[1].role = "user"
        /\ user_data.conversation_history[2].role = "user"

====
